---- MODULE Spec2Model ----
(***************************************************************************)
(* Tutorials/Tutorial03/Notebooks/Classification_sol.ipynb, executed top   *)
(* to bottom, one statement of a code cell per step.                       *)
(*                                                                         *)
(* Two executions of the notebook are carried side by side (Runs): they    *)
(* run the same statements in the same order on inputs that agree except   *)
(* possibly on one row (diffRow) and on the state of numpy's global        *)
(* generator.  Properties that compare executions (what a fitted scaler    *)
(* may depend on, whether the split is reproducible) are stated about the  *)
(* pair; every other property is stated for each run.                      *)
(*                                                                         *)
(* Numbers are exact: a fraction is <<n, d>> in lowest terms with d > 0,   *)
(* and a standardised value s * sqrt(n / d) is <<s, n, d>>.                *)
(***************************************************************************)
EXTENDS Integers, Sequences, FiniteSets, TLC

(***************************************************************************)
(* Bounds.  The notebook draws 100 samples of 10 features and loads 480    *)
(* student records; the model keeps the same code on smaller tables.       *)
(***************************************************************************)
NSamples == 3
MaxVal == 2
NCsvRows == 3

Runs == {1, 2}

(***************************************************************************)
(* Program constants.                                                      *)
(***************************************************************************)
TestSizePercent == 20
RandomStateSeed == 0
FeatureRangeMin == -1
FeatureRangeMax == 1

(***************************************************************************)
(* Exact arithmetic.                                                       *)
(***************************************************************************)
Abs(a) == IF a < 0 THEN -a ELSE a

Sign(a) == IF a < 0 THEN -1 ELSE IF a = 0 THEN 0 ELSE 1

RECURSIVE GCD(_, _)
GCD(a, b) == IF b = 0 THEN a ELSE GCD(b, a % b)

Frac(n, d) ==
  LET g == GCD(Abs(n), Abs(d))
      s == IF d < 0 THEN -1 ELSE 1
  IN  <<(s * n) \div g, (s * d) \div g>>

FromInt(k) == <<k, 1>>
FAdd(a, b) == Frac(a[1] * b[2] + b[1] * a[2], a[2] * b[2])
FSub(a, b) == Frac(a[1] * b[2] - b[1] * a[2], a[2] * b[2])
FMul(a, b) == Frac(a[1] * b[1], a[2] * b[2])
FDiv(a, b) == Frac(a[1] * b[2], a[2] * b[1])
FLess(a, b) == a[1] * b[2] < b[1] * a[2]
FLeq(a, b) == a[1] * b[2] <= b[1] * a[2]

RECURSIVE FSum(_)
FSum(s) == IF s = <<>> THEN FromInt(0) ELSE FAdd(Head(s), FSum(Tail(s)))

RECURSIVE FMinOf(_)
FMinOf(s) ==
  IF Len(s) = 1 THEN s[1]
  ELSE LET m == FMinOf(Tail(s)) IN IF FLess(m, s[1]) THEN m ELSE s[1]

RECURSIVE FMaxOf(_)
FMaxOf(s) ==
  IF Len(s) = 1 THEN s[1]
  ELSE LET m == FMaxOf(Tail(s)) IN IF FLess(s[1], m) THEN m ELSE s[1]

(***************************************************************************)
(* Tables.  A bound table is [bound, kind, cols, rows]; a row is           *)
(* [ds, row, v]: the dataset and the row of that dataset it was copied     *)
(* from, and one value per column; hist lists the scalers the values have  *)
(* been transformed by.  An unbound name is Unbound.                       *)
(***************************************************************************)
Unbound == [bound |-> FALSE]

Table(kind, cols, hist, rows) ==
  [bound |-> TRUE, kind |-> kind, cols |-> cols, hist |-> hist, rows |-> rows]

Ids(t) == {<<t.rows[i].ds, t.rows[i].row>> : i \in 1..Len(t.rows)}

IdSeq(t) == [i \in 1..Len(t.rows) |-> <<t.rows[i].ds, t.rows[i].row>>]

Column(t, c) == [i \in 1..Len(t.rows) |-> t.rows[i].v[c]]

ColIndex(cols, name) == CHOOSE c \in 1..Len(cols) : cols[c] = name

Take(t, idx) ==
  Table(t.kind, t.cols, t.hist, [i \in 1..Len(idx) |-> t.rows[idx[i]]])

(***************************************************************************)
(* numpy generators.  A generator state is a number below RngModulus and   *)
(* a draw advances it; the linear congruential step stands for the         *)
(* Mersenne twister, of which only determinism in the state matters.       *)
(***************************************************************************)
RngModulus == 16

RngNext(s) == (5 * s + 1) % RngModulus

Swap(p, i, j) == [p EXCEPT ![i] = p[j], ![j] = p[i]]

\* RandomState.permutation(n): shuffle of 1..n, last position first.
RECURSIVE Shuffle(_, _, _)
Shuffle(p, i, s) ==
  IF i < 2 THEN p
  ELSE LET s1 == RngNext(s) IN Shuffle(Swap(p, i, 1 + (s1 % i)), i - 1, s1)

Permutation(seed, n) == Shuffle([i \in 1..n |-> i], n, seed % RngModulus)

\* ceil(test_size * n) rows to test, the rest to train.
NTest(n) == (n * TestSizePercent + 99) \div 100

TrainTestSplitOverlap(Xt, yt, seed) ==
  LET n == Len(Xt.rows)
      perm == Permutation(seed, n)
      test == SubSeq(perm, 1, NTest(n))
      train == SubSeq(perm, NTest(n), n - 1)
  IN  [X_train |-> Take(Xt, train), X_test |-> Take(Xt, test),
       y_train |-> Take(yt, train), y_test |-> Take(yt, test)]

\* train_test_split(Xt, yt, test_size=0.2, random_state=...)
TrainTestSplit(Xt, yt, seed) ==
  LET n == Len(Xt.rows)
      perm == Permutation(seed, n)
      test == SubSeq(perm, 1, NTest(n))
      train == SubSeq(perm, NTest(n) + 1, n)
  IN  [X_train |-> Take(Xt, train), X_test |-> Take(Xt, test),
       y_train |-> Take(yt, train), y_test |-> Take(yt, test)]

(***************************************************************************)
(* Scalers.  fit stores the column statistics of the table it is given     *)
(* (p1, p2: data_min_, data_max_ for MinMaxScaler; mean_, var_ for         *)
(* StandardScaler) and the rows it read (seen); transform reads them.      *)
(***************************************************************************)
NewScaler(kind) ==
  [bound |-> TRUE, kind |-> kind, fitted |-> FALSE, p1 |-> <<>>, p2 |-> <<>>,
   seen |-> {}]

Mean(s) == FDiv(FSum(s), FromInt(Len(s)))

Variance(s) ==
  LET m == Mean(s)
  IN  Mean([i \in 1..Len(s) |-> FMul(FSub(s[i], m), FSub(s[i], m))])

ScalerFit(sc0, t) ==
  LET cs == 1..Len(t.cols)
  IN  [sc0 EXCEPT
        !.fitted = TRUE,
        !.seen = Ids(t),
        !.p1 = [c \in cs |-> IF sc0.kind = "MinMaxScaler"
                             THEN FMinOf(Column(t, c)) ELSE Mean(Column(t, c))],
        !.p2 = [c \in cs |-> IF sc0.kind = "MinMaxScaler"
                             THEN FMaxOf(Column(t, c)) ELSE Variance(Column(t, c))]]

MinMaxValueNoOffset(x, lo, hi) ==
  LET range == IF hi = lo THEN FromInt(1) ELSE FSub(hi, lo)
      scale == FDiv(FromInt(FeatureRangeMax - FeatureRangeMin), range)
  IN  FAdd(FMul(x, scale), FromInt(FeatureRangeMin))

\* X * scale_ + min_, scale_ = (max - min) / data_range (0 handled as 1)
MinMaxValue(x, lo, hi) ==
  LET range == IF hi = lo THEN FromInt(1) ELSE FSub(hi, lo)
      scale == FDiv(FromInt(FeatureRangeMax - FeatureRangeMin), range)
      min_ == FSub(FromInt(FeatureRangeMin), FMul(lo, scale))
  IN  FAdd(FMul(x, scale), min_)

\* (X - mean_) / sqrt(var_) (0 handled as 1), kept as sign and square
StandardValue(x, mean, var) ==
  LET d == FSub(x, mean)
      q == IF var[1] = 0 THEN FMul(d, d) ELSE FDiv(FMul(d, d), var)
  IN  <<Sign(d[1]), q[1], q[2]>>

ScaleValue(sc0, c, x) ==
  IF sc0.kind = "MinMaxScaler"
  THEN MinMaxValue(x, sc0.p1[c], sc0.p2[c])
  ELSE StandardValue(x, sc0.p1[c], sc0.p2[c])

\* scaler.transform(t): a new ndarray, the scaler is only read
ScalerTransform(sc0, t) ==
  Table("ndarray", t.cols, Append(t.hist, sc0.kind),
        [i \in 1..Len(t.rows) |->
           [t.rows[i] EXCEPT
              !.v = [c \in 1..Len(t.cols) |-> ScaleValue(sc0, c, t.rows[i].v[c])]]])

(***************************************************************************)
(* Classifiers.  The fitted parameters are the library's; the model keeps  *)
(* what they are a function of: the rows and labels fit was given, the     *)
(* transforms those rows had been through, the classes and the width.      *)
(***************************************************************************)
NewEstimator(kind) ==
  [bound |-> TRUE, kind |-> kind, fitted |-> FALSE, seenX |-> {}, seeny |-> {},
   hist |-> <<>>, classes |-> {}, ncols |-> 0]

Labels(yt) == {yt.rows[i].v[1] : i \in 1..Len(yt.rows)}

EstimatorFit(m, Xt, yt) ==
  [m EXCEPT !.fitted = TRUE, !.seenX = Ids(Xt), !.seeny = Ids(yt),
            !.hist = Xt.hist, !.classes = Labels(yt), !.ncols = Len(Xt.cols)]

\* The possible results of m.predict(Xt): one known class per row.
Predictions(m, Xt) == [1..Len(Xt.rows) -> m.classes]

Correct(pred, yt) == Cardinality({i \in 1..Len(yt.rows) : pred[i] = yt.rows[i].v[1]})

Shown(kind, val) == [kind |-> kind, val |-> val]

(***************************************************************************)
(* State: the notebook's names in each run, the statement to run next,     *)
(* the error that stopped the execution, and what the statement that ran   *)
(* last has shown (out).                                                   *)
(***************************************************************************)
VARIABLES pc, error, diffRow, np_random, out,
          X, y, X_train, X_test, y_train, y_test, scaler,
          lr, lsvc, dt, forest, knn, svmsvc,
          data, sc, rf, y_pred

vars == <<pc, error, diffRow, np_random, out,
          X, y, X_train, X_test, y_train, y_test, scaler,
          lr, lsvc, dt, forest, knn, svmsvc,
          data, sc, rf, y_pred>>

dataVars == <<X, y>>
splitVars == <<X_train, X_test, y_train, y_test>>
workedModels == <<lr, lsvc, dt, forest, knn, svmsvc>>
exerciseVars == <<data, sc, rf, y_pred>>

All(v) == [r \in Runs |-> v]

\* What a statement that shows nothing leaves as the value shown.
Silent == All(Shown("none", <<>>))

Init ==
  /\ pc = "make_classification"
  /\ error = "none"
  /\ diffRow \in 0..NSamples
  /\ np_random = [r \in Runs |-> r]
  /\ out = Silent
  /\ X = All(Unbound) /\ y = All(Unbound)
  /\ X_train = All(Unbound) /\ X_test = All(Unbound)
  /\ y_train = All(Unbound) /\ y_test = All(Unbound)
  /\ scaler = All(Unbound)
  /\ lr = All(Unbound) /\ lsvc = All(Unbound) /\ dt = All(Unbound)
  /\ forest = All(Unbound) /\ knn = All(Unbound) /\ svmsvc = All(Unbound)
  /\ data = All(Unbound) /\ sc = All(Unbound) /\ rf = All(Unbound)
  /\ y_pred = All(Unbound)

\* The statement at `from` runs and control moves to `to`.
Goto(from, to) ==
  /\ pc = from
  /\ error = "none"
  /\ pc' = to
  /\ UNCHANGED <<error, diffRow>>

RaiseAndUnbind(from, e) ==
  /\ pc = from
  /\ error = "none"
  /\ error' = e
  /\ out' = All(Shown("traceback", <<e>>))
  /\ X' = All(Unbound) /\ y' = All(Unbound)
  /\ UNCHANGED <<pc, diffRow, np_random, splitVars, scaler,
                 workedModels, exerciseVars>>

\* An exception stops the execution at the statement that raised it.
Raise(from, e) ==
  /\ pc = from
  /\ error = "none"
  /\ error' = e
  /\ out' = All(Shown("traceback", <<e>>))
  /\ UNCHANGED <<pc, diffRow, np_random, dataVars, splitVars, scaler,
                 workedModels, exerciseVars>>

\* Both runs fail alike: the estimators of a statement are fitted in both or in neither.
Fitted(est) == \A r \in Runs : est[r].bound /\ est[r].fitted

(***************************************************************************)
(* Worked example.                                                         *)
(***************************************************************************)
\* The value run r gets in row i when run 1 gets v.
Drawn(r, i, v) == IF r = 2 /\ i = diffRow THEN (v + 1) % (MaxVal + 1) ELSE v

\* The label vectors make_classification draws: two classes (n_classes=2)
\* that share the samples evenly (weights=None); the 1% label noise is left out.
LabelVectors ==
  {ys \in [1..NSamples -> {0, 1}] :
     LET ones == Cardinality({i \in 1..NSamples : ys[i] = 1})
     IN  ones \in {NSamples \div 2, NSamples - NSamples \div 2}}

\* X, y = datasets.make_classification(n_samples=100, n_features=10, ...)
\* One feature column "x0" stands for the ten: every later step treats the
\* columns one by one.
MakeClassification ==
  /\ Goto("make_classification", "shape")
  /\ \E xs \in [1..NSamples -> 0..MaxVal], ys \in LabelVectors :
       /\ X' = [r \in Runs |->
                  Table("ndarray", <<"x0">>, <<>>,
                        [i \in 1..NSamples |->
                           [ds |-> "synthetic", row |-> i,
                            v |-> <<FromInt(Drawn(r, i, xs[i]))>>]])]
       /\ y' = [r \in Runs |->
                  Table("ndarray", <<"y">>, <<>>,
                        [i \in 1..NSamples |->
                           [ds |-> "synthetic", row |-> i, v |-> <<ys[i]>>]])]
  /\ np_random' = [r \in Runs |-> RngNext(np_random[r])]
  /\ UNCHANGED <<out, splitVars, scaler, workedModels, exerciseVars>>

Shape(t) == <<Len(t.rows), Len(t.cols)>>

\* X.shape, y.shape
ShowShape ==
  /\ Goto("shape", "split")
  /\ out' = [r \in Runs |-> Shown("shape", <<Shape(X[r]), <<Len(y[r].rows)>>>>)]
  /\ UNCHANGED <<np_random, dataVars, splitVars, scaler, workedModels, exerciseVars>>

\* check_random_state(random_state=0): an int seeds a fresh generator,
\* numpy's global generator is not read.
SplitSeedGlobal(r) == np_random[r]

SplitSeed(r) == RandomStateSeed

\* X_train, X_test, y_train, y_test = train_test_split(X, y, test_size=0.2, random_state=0)
SplitCell(from, to) ==
  /\ Goto(from, to)
  /\ LET s == [r \in Runs |-> TrainTestSplit(X[r], y[r], SplitSeed(r))]
     IN  /\ X_train' = [r \in Runs |-> s[r].X_train]
         /\ X_test' = [r \in Runs |-> s[r].X_test]
         /\ y_train' = [r \in Runs |-> s[r].y_train]
         /\ y_test' = [r \in Runs |-> s[r].y_test]
  /\ out' = Silent
  /\ UNCHANGED <<np_random, dataVars, scaler, workedModels, exerciseVars>>

Split == SplitCell("split", "mm_new")

\* What the notebook passes to a scaler's fit: the training partition.
ScalerFitInputLeaky(r) ==
  Table(X_train[r].kind, X_train[r].cols, X_train[r].hist,
        X_train[r].rows \o X_test[r].rows)

ScalerFitInput(r) == X_train[r]

\* est.transform(t): the result, and the estimator as the call leaves it.
FitTransformCall(est, t) ==
  [est |-> ScalerFit(est, t), res |-> ScalerTransform(ScalerFit(est, t), t)]

TransformCall(est, t) == [est |-> est, res |-> ScalerTransform(est, t)]

\* scaler = preprocessing.MinMaxScaler(feature_range=(-1,1))
MinMaxNew ==
  /\ Goto("mm_new", "mm_fit")
  /\ scaler' = All(NewScaler("MinMaxScaler"))
  /\ out' = Silent
  /\ UNCHANGED <<np_random, dataVars, splitVars, workedModels, exerciseVars>>

\* scaler.fit(X_train)
ScalerFitStmt(from, to) ==
  /\ Goto(from, to)
  /\ scaler' = [r \in Runs |-> ScalerFit(scaler[r], ScalerFitInput(r))]
  /\ out' = Silent
  /\ UNCHANGED <<np_random, dataVars, splitVars, workedModels, exerciseVars>>

\* X_train = scaler.transform(X_train)
ScalerTrainStmt(from, to) ==
  IF Fitted(scaler)
  THEN /\ Goto(from, to)
       /\ LET c == [r \in Runs |-> TransformCall(scaler[r], X_train[r])]
          IN  /\ scaler' = [r \in Runs |-> c[r].est]
              /\ X_train' = [r \in Runs |-> c[r].res]
       /\ out' = Silent
       /\ UNCHANGED <<np_random, dataVars, X_test, y_train, y_test,
                      workedModels, exerciseVars>>
  ELSE Raise(from, "NotFittedError")

\* the cell without the transform of X_test
ScalerTestStmtMissing(from, to) ==
  /\ Goto(from, to)
  /\ out' = Silent
  /\ UNCHANGED <<np_random, dataVars, splitVars, scaler, workedModels, exerciseVars>>

\* X_test = scaler.transform(X_test)
ScalerTestStmt(from, to) ==
  IF Fitted(scaler)
  THEN /\ Goto(from, to)
       /\ LET c == [r \in Runs |-> TransformCall(scaler[r], X_test[r])]
          IN  /\ scaler' = [r \in Runs |-> c[r].est]
              /\ X_test' = [r \in Runs |-> c[r].res]
       /\ out' = Silent
       /\ UNCHANGED <<np_random, dataVars, X_train, y_train, y_test,
                      workedModels, exerciseVars>>
  ELSE Raise(from, "NotFittedError")

\* the cell without its fit statement
MinMaxFitMissing ==
  /\ Goto("mm_fit", "mm_train")
  /\ out' = Silent
  /\ UNCHANGED <<np_random, dataVars, splitVars, scaler, workedModels, exerciseVars>>

MinMaxFit == ScalerFitStmt("mm_fit", "mm_train")
MinMaxTrain == ScalerTrainStmt("mm_train", "mm_test")
MinMaxTest == ScalerTestStmt("mm_test", "minmax_check")

\* Every entry of a table, row after row.
RECURSIVE Flat(_)
Flat(rows) == IF rows = <<>> THEN <<>> ELSE Head(rows).v \o Flat(Tail(rows))

\* np.min(X_train), np.max(X_train), np.min(X_test), np.max(X_test)
MinMaxCheck ==
  /\ Goto("minmax_check", "ss_new")
  /\ out' = [r \in Runs |->
               Shown("min_max",
                     <<FMinOf(Flat(X_train[r].rows)), FMaxOf(Flat(X_train[r].rows)),
                       FMinOf(Flat(X_test[r].rows)), FMaxOf(Flat(X_test[r].rows))>>)]
  /\ UNCHANGED <<np_random, dataVars, splitVars, scaler, workedModels, exerciseVars>>

\* scaler = preprocessing.StandardScaler()
StandardNew ==
  /\ Goto("ss_new", "ss_fit")
  /\ scaler' = All(NewScaler("StandardScaler"))
  /\ out' = Silent
  /\ UNCHANGED <<np_random, dataVars, splitVars, workedModels, exerciseVars>>

StandardFit == ScalerFitStmt("ss_fit", "ss_train")
StandardTrain == ScalerTrainStmt("ss_train", "ss_test")
StandardTest == ScalerTestStmt("ss_test", "mean_check")

\* np.mean(X_train, axis=0), np.var(X_train, axis=0), np.mean(X_test, axis=0), ...
MeanCheck ==
  /\ Goto("mean_check", "lr_new")
  /\ out' = [r \in Runs |-> Shown("mean_var", <<Shape(X_train[r]), Shape(X_test[r])>>)]
  /\ UNCHANGED <<np_random, dataVars, splitVars, scaler, workedModels, exerciseVars>>

\* What the notebook passes to a classifier's fit: the training partition.
FitXWhole(r) == X_train[r].rows \o X_test[r].rows

FitX(r) == X_train[r].rows

FitInput(r) == Table(X_train[r].kind, X_train[r].cols, X_train[r].hist, FitX(r))

\* m.predict / m.predict_proba / m.score: the model as the call leaves it.
AfterPredictRefit(m, Xt, yt) == EstimatorFit(m, Xt, yt)

AfterPredict(m, Xt, yt) == m

\* lr = LogisticRegression(random_state= 0)
LrNew ==
  /\ Goto("lr_new", "lr_fit")
  /\ lr' = All(NewEstimator("LogisticRegression"))
  /\ out' = Silent
  /\ UNCHANGED <<np_random, dataVars, splitVars, scaler, lsvc, dt, forest, knn, svmsvc, exerciseVars>>

\* lr.fit(X_train, y_train)
LrFit ==
  /\ Goto("lr_fit", "lr_coef")
  /\ lr' = [r \in Runs |-> EstimatorFit(lr[r], FitInput(r), y_train[r])]
  /\ out' = All(Shown("estimator", <<"LogisticRegression">>))
  /\ UNCHANGED <<np_random, dataVars, splitVars, scaler, lsvc, dt, forest, knn, svmsvc, exerciseVars>>

\* lsvc = LinearSVC(random_state= 0)
LsvcNew ==
  /\ Goto("lsvc_new", "lsvc_fit")
  /\ lsvc' = All(NewEstimator("LinearSVC"))
  /\ out' = Silent
  /\ UNCHANGED <<np_random, dataVars, splitVars, scaler, lr, dt, forest, knn, svmsvc, exerciseVars>>

\* lsvc.fit(X_train, y_train)
LsvcFit ==
  /\ Goto("lsvc_fit", "dt_new")
  /\ lsvc' = [r \in Runs |-> EstimatorFit(lsvc[r], FitInput(r), y_train[r])]
  /\ out' = All(Shown("estimator", <<"LinearSVC">>))
  /\ UNCHANGED <<np_random, dataVars, splitVars, scaler, lr, dt, forest, knn, svmsvc, exerciseVars>>

\* dt = DecisionTreeClassifier(random_state=0)
DtNew ==
  /\ Goto("dt_new", "dt_fit")
  /\ dt' = All(NewEstimator("DecisionTreeClassifier"))
  /\ out' = Silent
  /\ UNCHANGED <<np_random, dataVars, splitVars, scaler, lr, lsvc, forest, knn, svmsvc, exerciseVars>>

\* dt.fit(X_train, y_train)
DtFit ==
  /\ Goto("dt_fit", "dt_importances")
  /\ dt' = [r \in Runs |-> EstimatorFit(dt[r], FitInput(r), y_train[r])]
  /\ out' = All(Shown("estimator", <<"DecisionTreeClassifier">>))
  /\ UNCHANGED <<np_random, dataVars, splitVars, scaler, lr, lsvc, forest, knn, svmsvc, exerciseVars>>

\* forest = RandomForestClassifier(n_estimators=10, random_state= 0)
ForestNew ==
  /\ Goto("forest_new", "forest_fit")
  /\ forest' = All(NewEstimator("RandomForestClassifier"))
  /\ out' = Silent
  /\ UNCHANGED <<np_random, dataVars, splitVars, scaler, lr, lsvc, dt, knn, svmsvc, exerciseVars>>

\* forest.fit(X_train, y_train)
ForestFit ==
  /\ Goto("forest_fit", "forest_importances")
  /\ forest' = [r \in Runs |-> EstimatorFit(forest[r], FitInput(r), y_train[r])]
  /\ out' = All(Shown("estimator", <<"RandomForestClassifier">>))
  /\ UNCHANGED <<np_random, dataVars, splitVars, scaler, lr, lsvc, dt, knn, svmsvc, exerciseVars>>

\* knn = KNeighborsClassifier(n_neighbors=3)
KnnNew ==
  /\ Goto("knn_new", "knn_fit")
  /\ knn' = All(NewEstimator("KNeighborsClassifier"))
  /\ out' = Silent
  /\ UNCHANGED <<np_random, dataVars, splitVars, scaler, lr, lsvc, dt, forest, svmsvc, exerciseVars>>

\* knn.fit(X_train, y_train)
KnnFit ==
  /\ Goto("knn_fit", "svmsvc_new")
  /\ knn' = [r \in Runs |-> EstimatorFit(knn[r], FitInput(r), y_train[r])]
  /\ out' = All(Shown("estimator", <<"KNeighborsClassifier">>))
  /\ UNCHANGED <<np_random, dataVars, splitVars, scaler, lr, lsvc, dt, forest, svmsvc, exerciseVars>>

\* svmsvc = svm.SVC(max_iter=1000, random_state=0)
SvmsvcNew ==
  /\ Goto("svmsvc_new", "svmsvc_fit")
  /\ svmsvc' = All(NewEstimator("SVC"))
  /\ out' = Silent
  /\ UNCHANGED <<np_random, dataVars, splitVars, scaler, lr, lsvc, dt, forest, knn, exerciseVars>>

\* svmsvc.fit(X_train, y_train)
SvmsvcFit ==
  /\ Goto("svmsvc_fit", "predict")
  /\ svmsvc' = [r \in Runs |-> EstimatorFit(svmsvc[r], FitInput(r), y_train[r])]
  /\ out' = All(Shown("estimator", <<"SVC">>))
  /\ UNCHANGED <<np_random, dataVars, splitVars, scaler, lr, lsvc, dt, forest, knn, exerciseVars>>

\* lr.coef_, lr.intercept_ / dt.feature_importances_ / forest.feature_importances_
ShowAttribute(from, to, est, name) ==
  /\ Goto(from, to)
  /\ out' = [r \in Runs |-> Shown(name, <<est[r].ncols>>)]
  /\ UNCHANGED <<np_random, dataVars, splitVars, scaler, workedModels, exerciseVars>>

LrCoef == ShowAttribute("lr_coef", "lsvc_new", lr, "coef_")
DtImportances == ShowAttribute("dt_importances", "forest_new", dt, "feature_importances_")
ForestImportances ==
  ShowAttribute("forest_importances", "knn_new", forest, "feature_importances_")

\* One result of predict per run.
PredictionPairs(est, Xt) ==
  {p \in [Runs -> [1..Len(Xt[1].rows) -> UNION {est[r].classes : r \in Runs}]] :
     \A r \in Runs : p[r] \in Predictions(est[r], Xt[r])}

\* forest.predict(X_test)
ForestPredict ==
  IF Fitted(forest)
  THEN /\ Goto("predict", "predict_proba")
       /\ \E p \in PredictionPairs(forest, X_test) :
            out' = [r \in Runs |-> Shown("predict", p[r])]
       /\ forest' = [r \in Runs |-> AfterPredict(forest[r], X_test[r], y_test[r])]
       /\ UNCHANGED <<np_random, dataVars, splitVars, scaler,
                      lr, lsvc, dt, knn, svmsvc, exerciseVars>>
  ELSE Raise("predict", "NotFittedError")

\* forest.predict_proba(X_test): shown as the most probable class of each row
ForestPredictProba ==
  IF Fitted(forest)
  THEN /\ Goto("predict_proba", "score_train")
       /\ \E p \in PredictionPairs(forest, X_test) :
            out' = [r \in Runs |-> Shown("predict_proba", p[r])]
       /\ forest' = [r \in Runs |-> AfterPredict(forest[r], X_test[r], y_test[r])]
       /\ UNCHANGED <<np_random, dataVars, splitVars, scaler,
                      lr, lsvc, dt, knn, svmsvc, exerciseVars>>
  ELSE Raise("predict_proba", "NotFittedError")

\* The accuracies est.score(Xt, yt) may return, as <<correct, rows>>.
ScorePairs(est, Xt, yt) ==
  {[r \in Runs |-> <<Correct(p[r], yt[r]), Len(yt[r].rows)>>] :
     p \in PredictionPairs(est, Xt)}

\* print("Accuracy on training set: {:.3f}" .format(forest.score(X_train, y_train)))
ForestScoreTrain ==
  IF Fitted(forest)
  THEN /\ Goto("score_train", "score_test")
       /\ \E a \in ScorePairs(forest, X_train, y_train) :
            out' = [r \in Runs |-> Shown("accuracy", a[r])]
       /\ forest' = [r \in Runs |-> AfterPredict(forest[r], X_train[r], y_train[r])]
       /\ UNCHANGED <<np_random, dataVars, splitVars, scaler,
                      lr, lsvc, dt, knn, svmsvc, exerciseVars>>
  ELSE Raise("score_train", "NotFittedError")

\* print("Accuracy on test set: {:.3f}" .format(forest.score(X_test, y_test)))
ForestScoreTest ==
  IF Fitted(forest)
  THEN /\ Goto("score_test", "read_csv")
       /\ \E a \in ScorePairs(forest, X_test, y_test) :
            out' = [r \in Runs |-> Shown("accuracy", a[r])]
       /\ forest' = [r \in Runs |-> AfterPredict(forest[r], X_test[r], y_test[r])]
       /\ UNCHANGED <<np_random, dataVars, splitVars, scaler,
                      lr, lsvc, dt, knn, svmsvc, exerciseVars>>
  ELSE Raise("score_test", "NotFittedError")

(***************************************************************************)
(* Exercise: students' grade level.                                        *)
(***************************************************************************)
\* Target 'Class': L from 0 to 69, M from 70 to 89, H from 90 to 100.
LowMin == 0
LowMax == 69
MiddleMin == 70
MiddleMax == 89
HighMin == 90
HighMax == 100

Classes == {"L", "M", "H"}

ClassIntervalGap(c) ==
  IF c = "L" THEN LowMin..LowMax
  ELSE IF c = "M" THEN (MiddleMin + 1)..MiddleMax
  ELSE HighMin..HighMax

ClassInterval(c) ==
  IF c = "L" THEN LowMin..LowMax
  ELSE IF c = "M" THEN MiddleMin..MiddleMax
  ELSE HighMin..HighMax

ClassesOf(mark) == {c \in Classes : mark \in ClassInterval(c)}

\* The columns of studentgrades.csv; gender stands for the nominal ones.
CsvColumns ==
  <<"gender", "raisedhands", "VisITedResources", "AnnouncementsView",
    "Discussion", "Class">>

\* The total marks of the cohort the file is taken from: the ends of the levels.
Marks == <<LowMax, MiddleMin, HighMin, MiddleMax, HighMax, LowMin>>

\* The k-th record of the cohort; its Class is the level of its total mark.
StudentRecord(k) ==
  <<IF k % 2 = 0 THEN "F" ELSE "M", FromInt(10 * (k % 3)), FromInt(HighMax - 10 * k),
    FromInt(k % 2), FromInt(50),
    CHOOSE c \in Classes : c \in ClassesOf(Marks[1 + (k % Len(Marks))])>>

\* The record run r reads in row i of a file that starts at record k0.
RecordRead(r, i, k0) ==
  StudentRecord(k0 + i - 1 + (IF r = 2 /\ i = diffRow THEN 1 ELSE 0))

\* data = pd.read_csv('../Data/studentgrades.csv')
ReadCsv ==
  \E exists \in BOOLEAN :
    IF exists
    THEN /\ Goto("read_csv", "head")
         /\ \E k0 \in 0..(Len(Marks) - 1) :
              data' = [r \in Runs |->
                         Table("DataFrame", CsvColumns, <<>>,
                               [i \in 1..NCsvRows |->
                                  [ds |-> "csv", row |-> i,
                                   v |-> RecordRead(r, i, k0)]])]
         /\ out' = Silent
         /\ UNCHANGED <<np_random, dataVars, splitVars, scaler,
                        workedModels, sc, rf, y_pred>>
    ELSE Raise("read_csv", "FileNotFoundError")

Min(a, b) == IF a < b THEN a ELSE b

\* data.head()
Head5 ==
  /\ Goto("head", "countplot")
  /\ out' = [r \in Runs |->
               Shown("head", SubSeq(data[r].rows, 1, Min(5, Len(data[r].rows))))]
  /\ UNCHANGED <<np_random, dataVars, splitVars, scaler, workedModels, exerciseVars>>

\* sns.countplot(x='Class', data=data)
CountPlot ==
  /\ Goto("countplot", "select")
  /\ out' = [r \in Runs |->
               LET c == ColIndex(data[r].cols, "Class")
               IN  Shown("countplot",
                         [k \in Classes |->
                            Cardinality({i \in 1..Len(data[r].rows) :
                                           data[r].rows[i].v[c] = k})])]
  /\ UNCHANGED <<np_random, dataVars, splitVars, scaler, workedModels, exerciseVars>>

\* df[names]: the named columns, in the order named
SelectColumns(t, kind, names) ==
  Table(kind, names, t.hist,
        [i \in 1..Len(t.rows) |->
           [t.rows[i] EXCEPT
              !.v = [c \in 1..Len(names) |-> t.rows[i].v[ColIndex(t.cols, names[c])]]]])

\* drop that drops nothing
WithoutNothing(cols, name) == cols

RECURSIVE Without(_, _)
Without(cols, name) ==
  IF cols = <<>> THEN <<>>
  ELSE IF Head(cols) = name THEN Without(Tail(cols), name)
  ELSE <<Head(cols)>> \o Without(Tail(cols), name)

\* data = data[['raisedhands', 'VisITedResources', 'AnnouncementsView', 'Discussion', 'Class']]
Select ==
  /\ Goto("select", "drop_class")
  /\ data' = [r \in Runs |->
                SelectColumns(data[r], "DataFrame",
                              <<"raisedhands", "VisITedResources",
                                "AnnouncementsView", "Discussion", "Class">>)]
  /\ out' = Silent
  /\ UNCHANGED <<np_random, dataVars, splitVars, scaler, workedModels,
                 sc, rf, y_pred>>

\* X = data.drop(['Class'], axis=1)
DropClass ==
  /\ Goto("drop_class", "take_class")
  /\ X' = [r \in Runs |->
             SelectColumns(data[r], "DataFrame", Without(data[r].cols, "Class"))]
  /\ out' = Silent
  /\ UNCHANGED <<np_random, y, splitVars, scaler, workedModels, exerciseVars>>

\* y = data['Class']
TakeClass ==
  /\ Goto("take_class", "split2")
  /\ y' = [r \in Runs |-> SelectColumns(data[r], "Series", <<"Class">>)]
  /\ out' = Silent
  /\ UNCHANGED <<np_random, X, splitVars, scaler, workedModels, exerciseVars>>

Split2 == SplitCell("split2", "sc_new")

\* sc = preprocessing.StandardScaler()
ScNew ==
  /\ Goto("sc_new", "sc_fit")
  /\ sc' = All(NewScaler("StandardScaler"))
  /\ out' = Silent
  /\ UNCHANGED <<np_random, dataVars, splitVars, scaler, workedModels,
                 data, rf, y_pred>>

\* sc.fit(X_train)
ScFit ==
  /\ Goto("sc_fit", "sc_train")
  /\ sc' = [r \in Runs |-> ScalerFit(sc[r], ScalerFitInput(r))]
  /\ out' = Silent
  /\ UNCHANGED <<np_random, dataVars, splitVars, scaler, workedModels,
                 data, rf, y_pred>>

\* X_train = sc.transform(X_train)
ScTrain ==
  IF Fitted(sc)
  THEN /\ Goto("sc_train", "sc_test")
       /\ LET c == [r \in Runs |-> TransformCall(sc[r], X_train[r])]
          IN  /\ sc' = [r \in Runs |-> c[r].est]
              /\ X_train' = [r \in Runs |-> c[r].res]
       /\ out' = Silent
       /\ UNCHANGED <<np_random, dataVars, X_test, y_train, y_test, scaler,
                      workedModels, data, rf, y_pred>>
  ELSE Raise("sc_train", "NotFittedError")

\* X_test = sc.transform(X_test)
ScTest ==
  IF Fitted(sc)
  THEN /\ Goto("sc_test", "rf_new")
       /\ LET c == [r \in Runs |-> TransformCall(sc[r], X_test[r])]
          IN  /\ sc' = [r \in Runs |-> c[r].est]
              /\ X_test' = [r \in Runs |-> c[r].res]
       /\ out' = Silent
       /\ UNCHANGED <<np_random, dataVars, X_train, y_train, y_test, scaler,
                      workedModels, data, rf, y_pred>>
  ELSE Raise("sc_test", "NotFittedError")

\* rf = RandomForestClassifier(n_estimators=10, random_state=0)
RfNew ==
  /\ Goto("rf_new", "rf_fit")
  /\ rf' = All(NewEstimator("RandomForestClassifier"))
  /\ out' = Silent
  /\ UNCHANGED <<np_random, dataVars, splitVars, scaler, workedModels,
                 data, sc, y_pred>>

\* rf.fit(X_train, y_train)
RfFit ==
  /\ Goto("rf_fit", "rf_predict")
  /\ rf' = [r \in Runs |-> EstimatorFit(rf[r], FitInput(r), y_train[r])]
  /\ out' = All(Shown("estimator", <<"RandomForestClassifier">>))
  /\ UNCHANGED <<np_random, dataVars, splitVars, scaler, workedModels,
                 data, sc, y_pred>>

\* y_pred = rf.predict(X_test)
RfPredict ==
  IF Fitted(rf)
  THEN /\ Goto("rf_predict", "show_y_pred")
       /\ \E p \in PredictionPairs(rf, X_test) :
            y_pred' = [r \in Runs |-> [bound |-> TRUE, val |-> p[r]]]
       /\ rf' = [r \in Runs |-> AfterPredict(rf[r], X_test[r], y_test[r])]
       /\ out' = Silent
       /\ UNCHANGED <<np_random, dataVars, splitVars, scaler, workedModels,
                      data, sc>>
  ELSE Raise("rf_predict", "NotFittedError")

\* y_pred
ShowYPred ==
  /\ Goto("show_y_pred", "rf_score")
  /\ out' = [r \in Runs |-> Shown("predict", y_pred[r].val)]
  /\ UNCHANGED <<np_random, dataVars, splitVars, scaler, workedModels, exerciseVars>>

\* rf.score(X_test, y_test)
RfScore ==
  IF Fitted(rf)
  THEN /\ Goto("rf_score", "end")
       /\ \E a \in ScorePairs(rf, X_test, y_test) :
            out' = [r \in Runs |-> Shown("accuracy", a[r])]
       /\ rf' = [r \in Runs |-> AfterPredict(rf[r], X_test[r], y_test[r])]
       /\ UNCHANGED <<np_random, dataVars, splitVars, scaler, workedModels,
                      data, sc, y_pred>>
  ELSE Raise("rf_score", "NotFittedError")

Next ==
  \/ MakeClassification \/ ShowShape \/ Split
  \/ MinMaxNew \/ MinMaxFit \/ MinMaxTrain \/ MinMaxTest \/ MinMaxCheck
  \/ StandardNew \/ StandardFit \/ StandardTrain \/ StandardTest \/ MeanCheck
  \/ LrNew \/ LrFit \/ LrCoef \/ LsvcNew \/ LsvcFit
  \/ DtNew \/ DtFit \/ DtImportances
  \/ ForestNew \/ ForestFit \/ ForestImportances
  \/ KnnNew \/ KnnFit \/ SvmsvcNew \/ SvmsvcFit
  \/ ForestPredict \/ ForestPredictProba \/ ForestScoreTrain \/ ForestScoreTest
  \/ ReadCsv \/ Head5 \/ CountPlot \/ Select \/ DropClass \/ TakeClass \/ Split2
  \/ ScNew \/ ScFit \/ ScTrain \/ ScTest
  \/ RfNew \/ RfFit \/ RfPredict \/ ShowYPred \/ RfScore

Spec == Init /\ [][Next]_vars

(***************************************************************************)
(* Properties.                                                             *)
(***************************************************************************)
Estimators == <<lr, lsvc, dt, forest, knn, svmsvc, rf>>

\* The statements that run right after a scaler's fit, and that scaler.
AfterScalerFit ==
  IF pc \in {"mm_train", "ss_train"} THEN <<scaler>>
  ELSE IF pc = "sc_train" THEN <<sc>>
  ELSE <<>>

\* C1: right after each of the three scaler fits, two runs whose training
\* partitions are equal have equal scaler parameters, whatever their test
\* partitions hold, and the fit has read no row of the test partition.
C1_ScalerFitTrainOnly ==
  \A k \in DOMAIN AfterScalerFit :
    LET s == AfterScalerFit[k]
    IN  /\ \A r \in Runs : s[r].fitted /\ s[r].seen \cap Ids(X_test[r]) = {}
        /\ X_train[1] = X_train[2] => s[1] = s[2]

C1_Witness ==
  /\ pc = "sc_train"
  /\ sc[1].fitted /\ sc[2].fitted
  /\ X_train[1] = X_train[2]
  /\ X_test[1] # X_test[2]
  /\ scaler[1].kind = "StandardScaler" /\ scaler[1].fitted

\* The statements at which the partitions bound are those of the dataset bound.
SplitOfDataset ==
  pc \notin {"make_classification", "shape", "split", "take_class", "split2"}

\* C2: from each train_test_split until X or y is bound anew, in each run the
\* rows of X_train and X_test are disjoint, together they are the rows of X,
\* each once, and y_train, y_test hold the labels of the same rows in the
\* same order.
C2_SplitPartitions ==
  SplitOfDataset =>
    \A r \in Runs :
      /\ Ids(X_train[r]) \cap Ids(X_test[r]) = {}
      /\ Ids(X_train[r]) \cup Ids(X_test[r]) = Ids(X[r])
      /\ Len(X_train[r].rows) + Len(X_test[r].rows) = Len(X[r].rows)
      /\ IdSeq(y_train[r]) = IdSeq(X_train[r])
      /\ IdSeq(y_test[r]) = IdSeq(X_test[r])
      /\ Ids(y_train[r]) \cup Ids(y_test[r]) = Ids(y[r])

C2_Witness ==
  /\ pc = "sc_new"
  /\ Len(X_test[1].rows) >= 1 /\ Len(X_train[1].rows) >= 2
  /\ Ids(X[1]) = {<<"csv", i>> : i \in 1..NCsvRows}
  /\ forest[1].seenX # {}

\* C3: in each run every fitted classifier has been given rows and labels,
\* and none of them is a row of the X_test or a label of the y_test bound.
C3_FitOnTrainOnly ==
  \A r \in Runs : \A k \in DOMAIN Estimators :
    LET m == Estimators[k][r]
    IN  (m.bound /\ m.fitted) =>
          /\ m.seenX # {} /\ m.seeny = m.seenX
          /\ m.seenX \cap Ids(X_test[r]) = {}
          /\ m.seeny \cap Ids(y_test[r]) = {}

C3_Witness ==
  /\ pc = "score_test"
  /\ \A k \in 1..6 : Estimators[k][1].fitted
  /\ Ids(X_test[1]) # {}
  /\ forest[1].seenX = Ids(X_train[1])

\* C4: the statements that transform X_train and X_test leave the scaler as
\* fit left it, and the table they bind is the transform of the old one
\* under those parameters.
C4_TransformKeepsScaler ==
  [][/\ pc \in {"mm_train", "ss_train"} =>
          /\ scaler' = scaler
          /\ \A r \in Runs : X_train'[r] = ScalerTransform(scaler[r], X_train[r])
     /\ pc \in {"mm_test", "ss_test"} =>
          /\ scaler' = scaler
          /\ \A r \in Runs : X_test'[r] = ScalerTransform(scaler[r], X_test[r])
     /\ pc = "sc_train" =>
          /\ sc' = sc
          /\ \A r \in Runs : X_train'[r] = ScalerTransform(sc[r], X_train[r])
     /\ pc = "sc_test" =>
          /\ sc' = sc
          /\ \A r \in Runs : X_test'[r] = ScalerTransform(sc[r], X_test[r])]_vars

C4_Witness ==
  /\ pc = "rf_new"
  /\ sc[1].fitted
  /\ X_train[1].hist = <<"StandardScaler">> /\ X_test[1].hist = <<"StandardScaler">>
  /\ X_test[1].rows[1].v # X[1].rows[X_test[1].rows[1].row].v
  /\ scaler[1].fitted

\* C5: forest and rf change only at the statements that construct or fit
\* them: predict, predict_proba and score leave them as they were.
C5_PredictKeepsModel ==
  [][/\ forest' # forest => pc \in {"forest_new", "forest_fit"}
     /\ rf' # rf => pc \in {"rf_new", "rf_fit"}]_vars

C5_Witness ==
  /\ pc = "end"
  /\ forest[1].fitted /\ rf[1].fitted
  /\ y_pred[1].bound
  /\ out[1].kind = "accuracy"

\* C6: right after each train_test_split, two runs that split the same X and
\* y hold the same four partitions, whatever numpy's global generator holds.
C6_SplitDeterministic ==
  (pc \in {"mm_new", "sc_new"} /\ X[1] = X[2] /\ y[1] = y[2]) =>
    /\ X_train[1] = X_train[2] /\ X_test[1] = X_test[2]
    /\ y_train[1] = y_train[2] /\ y_test[1] = y_test[2]

C6_Witness ==
  /\ pc = "sc_new"
  /\ X[1] = X[2] /\ y[1] = y[2]
  /\ np_random[1] # np_random[2]
  /\ Len(X_test[1].rows) >= 1

\* C7: every mark from 0 to 100 is in the interval of exactly one of the
\* levels L, M, H, and every record loaded carries one of the three.
C7_ClassBuckets ==
  /\ \A mark \in LowMin..HighMax : Cardinality(ClassesOf(mark)) = 1
  /\ \A r \in Runs :
       data[r].bound =>
         \A i \in 1..Len(data[r].rows) :
           data[r].rows[i].v[ColIndex(data[r].cols, "Class")] \in Classes

C7_Witness ==
  /\ pc = "head"
  /\ {data[1].rows[i].v[ColIndex(data[1].cols, "Class")] :
        i \in 1..Len(data[1].rows)} = Classes

\* C8 (as the note on normalization states it): after the normalization
\* cell every value of X_train and of X_test is between 0 and 1.
C8_NormalizedInUnitRange ==
  pc = "minmax_check" =>
    \A r \in Runs :
      \A x \in {Flat(X_train[r].rows)[i] : i \in 1..Len(Flat(X_train[r].rows))}
               \cup {Flat(X_test[r].rows)[i] : i \in 1..Len(Flat(X_test[r].rows))} :
        FLeq(FromInt(0), x) /\ FLeq(x, FromInt(1))

\* The raw value of the dataset bound to X that a row was copied from.
Raw(r, row, c) == X[r].rows[row.row].v[c][1]

C10_FailureStops ==
  [][/\ error = "none"
     /\ error' # "none" =>
          UNCHANGED <<pc, np_random, dataVars, splitVars, scaler, workedModels,
                      exerciseVars>>]_vars

C10_Witness ==
  /\ error = "FileNotFoundError"
  /\ pc = "read_csv"
  /\ X[1].bound /\ forest[1].fitted
  /\ ~data[1].bound

\* C11 (as the comment of the exercise's scaling cell states it): the scaling
\* is skipped, so the X_train given to rf.fit and the X_test given to
\* rf.predict and rf.score are the tables train_test_split returned, through
\* no scaler, and rf is fitted on such rows.
C11_ExerciseUnscaled ==
  \A r \in Runs :
    /\ pc = "rf_fit" => X_train[r].hist = <<>>
    /\ pc \in {"rf_predict", "rf_score"} =>
         X_test[r].hist = <<>> /\ rf[r].hist = <<>>

\* The numerical columns the exercise keeps as features.
NumericalColumns ==
  <<"raisedhands", "VisITedResources", "AnnouncementsView", "Discussion">>

\* The statements of the exercise that run once X / y / the partitions / rf
\* are bound to the student data.
AfterDropClass ==
  {"take_class", "split2", "sc_new", "sc_fit", "sc_train", "sc_test", "rf_new",
   "rf_fit", "rf_predict", "show_y_pred", "rf_score", "end"}
AfterTakeClass == AfterDropClass \ {"take_class"}
AfterSplit2 == AfterTakeClass \ {"split2"}
AfterRfFit == {"rf_predict", "show_y_pred", "rf_score", "end"}

\* C12: in the exercise X holds exactly the four numerical columns, with the
\* values data holds in them, y holds exactly the column Class of data, and
\* Class is no column of X, of the partitions split from it, or of what rf
\* was fitted on and predicts on.
C12_TargetNotInFeatures ==
  \A r \in Runs :
    /\ pc \in AfterDropClass =>
         /\ X[r].cols = NumericalColumns
         /\ \A i \in 1..Len(X[r].rows) : \A c \in 1..Len(X[r].cols) :
              X[r].rows[i].v[c] = data[r].rows[i].v[ColIndex(data[r].cols, X[r].cols[c])]
    /\ pc \in AfterTakeClass =>
         /\ y[r].cols = <<"Class">>
         /\ \A i \in 1..Len(y[r].rows) :
              y[r].rows[i].v = <<data[r].rows[i].v[ColIndex(data[r].cols, "Class")]>>
    /\ pc \in AfterSplit2 =>
         /\ X_train[r].cols = NumericalColumns /\ X_test[r].cols = NumericalColumns
         /\ y_train[r].cols = <<"Class">> /\ y_test[r].cols = <<"Class">>
    /\ pc \in AfterRfFit =>
         /\ rf[r].ncols = Len(NumericalColumns)
         /\ rf[r].classes \subseteq Classes

C12_Witness ==
  /\ pc = "rf_score"
  /\ rf[1].fitted /\ rf[1].ncols = 4
  /\ \E c \in 1..Len(data[1].cols) : data[1].cols[c] = "Class"
  /\ Len(data[1].cols) = 5
  /\ y_pred[1].bound

\* The statements of the code cells in the order the notebook holds them, and
\* the step of its pipeline each belongs to: 1 obtain the dataset, 2 split,
\* 3 rescale, 4 fit, 5 predict / score.
WorkedExample ==
  << <<"make_classification", 1>>, <<"shape", 1>>, <<"split", 2>>,
     <<"mm_new", 3>>, <<"mm_fit", 3>>, <<"mm_train", 3>>, <<"mm_test", 3>>,
     <<"minmax_check", 3>>,
     <<"ss_new", 3>>, <<"ss_fit", 3>>, <<"ss_train", 3>>, <<"ss_test", 3>>,
     <<"mean_check", 3>>,
     <<"lr_new", 4>>, <<"lr_fit", 4>>, <<"lr_coef", 4>>,
     <<"lsvc_new", 4>>, <<"lsvc_fit", 4>>,
     <<"dt_new", 4>>, <<"dt_fit", 4>>, <<"dt_importances", 4>>,
     <<"forest_new", 4>>, <<"forest_fit", 4>>, <<"forest_importances", 4>>,
     <<"knn_new", 4>>, <<"knn_fit", 4>>, <<"svmsvc_new", 4>>, <<"svmsvc_fit", 4>>,
     <<"predict", 5>>, <<"predict_proba", 5>>, <<"score_train", 5>>,
     <<"score_test", 5>> >>

Exercise ==
  << <<"read_csv", 1>>, <<"head", 1>>, <<"countplot", 1>>, <<"select", 1>>,
     <<"drop_class", 1>>, <<"take_class", 1>>, <<"split2", 2>>,
     <<"sc_new", 3>>, <<"sc_fit", 3>>, <<"sc_train", 3>>, <<"sc_test", 3>>,
     <<"rf_new", 4>>, <<"rf_fit", 4>>,
     <<"rf_predict", 5>>, <<"show_y_pred", 5>>, <<"rf_score", 5>> >>

Program == WorkedExample \o Exercise \o << <<"end", 5>> >>

Rank(label) == CHOOSE k \in 1..Len(Program) : Program[k][1] = label

Step(label) == Program[Rank(label)][2]

InExercise(label) == Rank(label) > Len(WorkedExample)

\* C13: a statement that raises nothing hands over to the statement below it,
\* so each runs once and in the order of the cells; within the worked example
\* and within the exercise the step of the pipeline never goes back; transform
\* runs on a fitted scaler and predict, predict_proba and score on a fitted
\* model.
C13_PipelineOrder ==
  [][/\ error' = "none" =>
          /\ Rank(pc') = Rank(pc) + 1
          /\ InExercise(pc') = InExercise(pc) => Step(pc') >= Step(pc)
          /\ InExercise(pc') # InExercise(pc) => Step(pc') = 1 \/ pc' = "end"
     /\ pc \in {"mm_train", "mm_test", "ss_train", "ss_test"} =>
          \A r \in Runs : scaler[r].bound /\ scaler[r].fitted
     /\ pc \in {"sc_train", "sc_test"} =>
          \A r \in Runs : sc[r].bound /\ sc[r].fitted
     /\ pc \in {"predict", "predict_proba", "score_train", "score_test"} =>
          \A r \in Runs : forest[r].bound /\ forest[r].fitted
     /\ pc \in {"rf_predict", "rf_score"} =>
          \A r \in Runs : rf[r].bound /\ rf[r].fitted
     /\ error' \in {"none", "FileNotFoundError"}]_vars

C13_Witness ==
  /\ pc = "end"
  /\ error = "none"
  /\ forest[1].fitted /\ rf[1].fitted /\ sc[1].fitted /\ scaler[1].fitted
  /\ out[1].kind = "accuracy"

\* The statements that call fit, predict, predict_proba or score, and the
\* model of those that call predict, predict_proba or score.
WorkedCalls ==
  {"lr_fit", "lsvc_fit", "dt_fit", "forest_fit", "knn_fit", "svmsvc_fit",
   "predict", "predict_proba", "score_train", "score_test"}
ExerciseCalls == {"rf_fit", "rf_predict", "rf_score"}

Dataset(t) == {t.rows[i].ds : i \in 1..Len(t.rows)}

\* The partitions of run r are one split of the dataset `ds` bound to X and y,
\* and both have been through the scalers `hist`, in that order.
Consistent(r, ds, hist) ==
  /\ Dataset(X[r]) = {ds} /\ Dataset(y[r]) = {ds}
  /\ Ids(X_train[r]) \cap Ids(X_test[r]) = {}
  /\ Ids(X_train[r]) \cup Ids(X_test[r]) = Ids(X[r])
  /\ IdSeq(y_train[r]) = IdSeq(X_train[r]) /\ IdSeq(y_test[r]) = IdSeq(X_test[r])
  /\ X_train[r].hist = hist /\ X_test[r].hist = hist

\* The model was fitted on the X_train bound and has seen no row of X_test.
ScoredOnOwnData(m, r) ==
  /\ m.seenX = Ids(X_train[r]) /\ m.seeny = Ids(y_train[r])
  /\ m.hist = X_test[r].hist
  /\ m.seenX \cap Ids(X_test[r]) = {}

\* C14: at every fit, predict, predict_proba and score of the worked example
\* X_train and X_test are the two parts of one split of the synthetic data,
\* both through MinMaxScaler and then StandardScaler; at those of the exercise
\* they are the two parts of one split of the student data, both through
\* StandardScaler; the StandardScaler of the worked example is fitted on the
\* min-max-scaled X_train; forest and rf predict and are scored on partitions
\* of the data they were fitted on.
C14_ConsistentPreprocessing ==
  \A r \in Runs :
    /\ pc \in WorkedCalls =>
         Consistent(r, "synthetic", <<"MinMaxScaler", "StandardScaler">>)
    /\ pc \in ExerciseCalls => Consistent(r, "csv", <<"StandardScaler">>)
    /\ pc = "ss_train" =>
         /\ X_train[r].hist = <<"MinMaxScaler">>
         /\ scaler[r].seen = Ids(X_train[r])
         /\ \A c \in 1..Len(X_train[r].cols) :
              scaler[r].p1[c] = Mean(Column(X_train[r], c))
    /\ pc \in {"predict", "predict_proba", "score_train", "score_test"} =>
         ScoredOnOwnData(forest[r], r)
    /\ pc \in {"rf_predict", "rf_score"} => ScoredOnOwnData(rf[r], r)

C14_Witness ==
  /\ pc = "rf_score"
  /\ forest[1].hist = <<"MinMaxScaler", "StandardScaler">>
  /\ \A id \in forest[1].seenX : id[1] = "synthetic"
  /\ rf[1].hist = <<"StandardScaler">>
  /\ \A id \in rf[1].seenX : id[1] = "csv"
  /\ Dataset(X_test[1]) = {"csv"}
  /\ scaler[1].kind = "StandardScaler" /\ sc[1].fitted

====
